---- MODULE Spec2Model ----
(***************************************************************************)
(* Model of the secret-manager server: the REST handlers of                *)
(* server/routes.ts running over the PostgreSQL storage of                 *)
(* server/pg-storage.ts (the exported `storage`), and the AWS SSM          *)
(* parameter store they write through to.                                  *)
(*                                                                         *)
(* Every handler is a sequence of awaits.  Each await (a storage call or   *)
(* an SSM call) is one action, so concurrent requests interleave exactly   *)
(* at the suspension points of the code.  A request lives in a slot of     *)
(* `req`; its record holds the request's inputs, its position (pc), its    *)
(* local constants and, once answered, the HTTP status.                    *)
(*                                                                         *)
(* Abstractions: the columns description, isEncrypted, password, email and *)
(* the details text of a log entry carry no control flow and are left out. *)
(***************************************************************************)
EXTENDS Integers, Sequences, FiniteSets, TLC

\* ------------------------------------------------------------------ bounds
MaxSlots == 2      \* requests in flight at the same time
MaxProjects == 2   \* project rows ever inserted
MaxSecrets == 2    \* secret rows ever inserted
MaxRoleRows == 2   \* user_projects rows ever inserted
MaxLog == 3        \* activity_logs rows ever inserted
MaxFailures == 1   \* calls of a dependency (database, SSM) that fail for an outside reason
MaxUsers == 3      \* user rows ever inserted, the seeded accounts included
MaxClock == 2      \* milliseconds the server clock advances

Slots == 1..MaxSlots
ProjectIds == 1..MaxProjects
SecretIds == 1..MaxSecrets

\* ------------------------------------------------------------ input values
\* The accounts the database is seeded with: id -> global role (users.role,
\* "admin" or "user").
UserRoles == <<"admin", "user">>
UserIds == DOMAIN UserRoles

\* A request without a session has no req.user.
NoUser == 0

ProjectRoles == {"admin", "editor", "viewer"}

\* Project names are strings over a small alphabet, as sequences of
\* characters, so that the slug conversion is computed and not assumed.
ProjectNames == {<<"A", " ", "B">>}
SecretNames == {"K1", "K2"}
SecretValues == {"v1", "v2"}

\* Sentinels for `undefined` / absent request fields.
NoName == ""
NoValue == "undefined"
EmptyValue == ""
NoPName == <<>>
NoPath == <<NoPName, NoName>>
NoProjectId == 0
NoUserProject == [id |-> 0, userId |-> 0, projectId |-> 0, role |-> "none"]
NoSecret == [id |-> 0, name |-> NoName, value |-> NoValue, projectId |-> 0, ssmPath |-> NoPath]
NoProject == [id |-> 0, name |-> NoPName]
NoParameter == "ParameterNotFound"

\* ------------------------------------------------------------------- state
VARIABLES
  users,          \* table users: sequence of global roles, id = position
  clock,          \* the server's clock (new Date()), in milliseconds
  projects,       \* table projects: set of [id, name]
  userProjects,   \* table user_projects: set of [id, userId, projectId, role]
  secrets,        \* table secrets: set of [id, name, value, projectId, ssmPath]
  activityLogs,   \* table activity_logs: sequence of rows, id = position
  projectSeq,     \* serial of projects.id (next value)
  userProjectSeq, \* serial of user_projects.id
  secretSeq,      \* serial of secrets.id
  ssm,            \* SSM parameter store: path -> value or NoParameter
  req,            \* the requests being handled, one record per slot
  failures        \* dependency failures so far (outages of the database or of SSM)

vars == <<users, clock, projects, userProjects, secrets, activityLogs, projectSeq,
          userProjectSeq, secretSeq, ssm, req, failures>>

db == <<projects, userProjects, secrets, activityLogs, projectSeq,
        userProjectSeq, secretSeq>>

\* ------------------------------------------------------------ pure helpers
\* String.prototype.toLowerCase on one character of the alphabet.
ToLowerCase(c) == IF c = "A" THEN "a" ELSE IF c = "B" THEN "b" ELSE c

\* Mutant: spaces are kept.
ReplaceSpace_Keep(c) == c

\* .replace(/ /g, "-") on one character.
ReplaceSpace(c) == IF c = " " THEN "-" ELSE c

\* project.name.toLowerCase().replace(/ /g, "-")
FormattedProjectName(name) == [i \in DOMAIN name |-> ReplaceSpace(ToLowerCase(name[i]))]

\* `/secrets-manager/${formattedProjectName}/${req.body.name}`: the constant
\* prefix is the same for every path; a path is the pair of its two segments.
SsmPathOf(projectName, secretName) == <<FormattedProjectName(projectName), secretName>>

SsmPaths == {SsmPathOf(pn, sn) : pn \in ProjectNames, sn \in SecretNames}

\* Mutant: the middleware lets every request through.
IsAuthenticated_Always(u) == TRUE

\* req.isAuthenticated(): the session carries a user.
IsAuthenticated(u) == u # NoUser

\* (req.user as any).role
GlobalRole(u) == IF u \in DOMAIN users THEN users[u] ELSE "none"

\* Mutant: the lookup is made for every user, the global admin included.
NeedsProjectRole_Always(userRole) == TRUE

\* userRole !== "admin": the per-project lookup is made for these users only.
NeedsProjectRole(userRole) == userRole # "admin"

\* The role tests of the handlers on the looked-up row (`undefined` is NoUserProject).
CanViewProject(up) == up # NoUserProject
CanListSecrets(up) == up # NoUserProject
CanListUsers(up) == up # NoUserProject
CanListLogs(up) == up # NoUserProject
CanCreateSecret(up) == up # NoUserProject /\ up.role \in {"admin", "editor"}
CanUpdateSecret(up) == up # NoUserProject /\ up.role \in {"admin", "editor"}
CanDeleteSecret(up) == up # NoUserProject /\ up.role \in {"admin"}
CanAssign(up) == up # NoUserProject /\ up.role \in {"admin"}

\* ------------------------------------------------------- storage (PgStorage)
\* Mutant: the lookup filters on the user only.
GetUserProject_AnyProject(u, p) ==
  LET rows == {up \in userProjects : up.userId = u}
  IN IF rows = {} THEN {NoUserProject} ELSE rows

\* getUserProject: SELECT ... WHERE user_id = u AND project_id = p, results[0].
\* The query has no ORDER BY: when several rows match, any of them can be
\* first.  The set of rows the call can return.
GetUserProject(u, p) ==
  LET rows == {up \in userProjects : up.userId = u /\ up.projectId = p}
  IN IF rows = {} THEN {NoUserProject} ELSE rows

\* getProject: SELECT by primary key, results[0].
GetProject(p) ==
  LET rows == {pr \in projects : pr.id = p}
  IN IF rows = {} THEN NoProject ELSE CHOOSE pr \in rows : TRUE

\* getSecret: SELECT by primary key, results[0].
GetSecret(s) ==
  LET rows == {se \in secrets : se.id = s}
  IN IF rows = {} THEN NoSecret ELSE CHOOSE se \in rows : TRUE

\* createProject: INSERT ... RETURNING, the id is the next value of the serial.
CreateProject(rows, seq, name) == rows \cup {[id |-> seq, name |-> name]}

\* createSecret: INSERT ... RETURNING.
CreateSecret(rows, seq, name, value, p, path) ==
  rows \cup {[id |-> seq, name |-> name, value |-> value, projectId |-> p, ssmPath |-> path]}

\* updateSecret: UPDATE secrets SET <the fields of the body> WHERE id = s.
\* Absent fields keep their value; no row is touched when none has the id.
\* The body is a Partial<InsertSecret>: name, value, projectId, ssmPath.
UpdateSecret(rows, s, name, value, p, path) ==
  {IF se.id = s
     THEN [se EXCEPT !.name = IF name = NoName THEN @ ELSE name,
                     !.value = IF value = NoValue THEN @ ELSE value,
                     !.projectId = IF p = NoProjectId THEN @ ELSE p,
                     !.ssmPath = IF path = NoPath THEN @ ELSE path]
     ELSE se : se \in rows}

\* deleteSecret: DELETE FROM secrets WHERE id = s.
DeleteSecret(rows, s) == {se \in rows : se.id # s}

\* PutParameterCommand with Overwrite: true, when SSM accepts it.
PutParameter(store, path, value) == [store EXCEPT ![path] = value]

\* DeleteParameterCommand, when SSM accepts it (it rejects a missing name).
DeleteParameter(store, path) == [store EXCEPT ![path] = NoParameter]

\* assignUserToProject: a plain INSERT ... RETURNING; the table has no unique
\* constraint on (user_id, project_id).
AssignUserToProject(rows, seq, u, p, role) ==
  rows \cup {[id |-> seq, userId |-> u, projectId |-> p, role |-> role]}

\* Mutant: only one of the matching rows is deleted (the first one found).
RemoveUserFromProject_First(rows, u, p) ==
  LET found == {up \in rows : up.userId = u /\ up.projectId = p}
  IN IF found = {} THEN rows
     ELSE rows \ {CHOOSE up \in found : \A other \in found : up.id <= other.id}

\* removeUserFromProject: DELETE FROM user_projects WHERE user_id = u AND
\* project_id = p; every matching row goes.
RemoveUserFromProject(rows, u, p) ==
  {up \in rows : ~(up.userId = u /\ up.projectId = p)}

\* getProjectActivityLogs: SELECT ... WHERE resource_type = 'project' AND
\* resource_id = p.  The ids (positions) of the rows it returns.
GetProjectActivityLogs(p) ==
  {i \in DOMAIN activityLogs :
     activityLogs[i].resourceType = "project" /\ activityLogs[i].resourceId = p}

\* Mutant: the log keeps one entry per resource, the latest.
LogActivity_Latest(log, u, action, resourceType, resourceId) ==
  LET kept == SelectSeq(log, LAMBDA e : ~(e.resourceType = resourceType /\ e.resourceId = resourceId))
  IN Append(kept, [userId |-> u, action |-> action, resourceType |-> resourceType,
                   resourceId |-> resourceId, timestamp |-> clock])

\* logActivity: INSERT of {...activity, timestamp: new Date()}: the timestamp
\* is the server's clock at the call.
\* getActivityLogs: SELECT * FROM activity_logs (the positions of the rows)
GetActivityLogs == DOMAIN activityLogs

\* getUserActivityLogs: ... WHERE user_id = u
GetUserActivityLogs(u) == {i \in DOMAIN activityLogs : activityLogs[i].userId = u}

\* Mutant: ORDER BY timestamp, oldest first.
OrderByTimestampDesc_Asc(ids) ==
  {s \in [1..Cardinality(ids) -> ids] :
     /\ \A i, j \in DOMAIN s : i # j => s[i] # s[j]
     /\ \A i, j \in DOMAIN s :
          i < j => activityLogs[s[i]].timestamp <= activityLogs[s[j]].timestamp}

\* ORDER BY timestamp DESC: the sequences the query may return. Rows with
\* equal timestamps come in any order.
OrderByTimestampDesc(ids) ==
  {s \in [1..Cardinality(ids) -> ids] :
     /\ \A i, j \in DOMAIN s : i # j => s[i] # s[j]
     /\ \A i, j \in DOMAIN s :
          i < j => activityLogs[s[i]].timestamp >= activityLogs[s[j]].timestamp}

\* createUser: INSERT INTO users, the role column taken from the argument.
\* The id of the new row is its position.
CreateUser(rows, role) == Append(rows, role)

\* getProjects: SELECT * FROM projects (the ids of the rows)
GetProjects == {pr.id : pr \in projects}

\* getUserProjects: the rows of projects whose id is the projectId of a
\* user_projects row of the user.
GetUserProjects(u) ==
  LET projectIds == {up.projectId : up \in {up \in userProjects : up.userId = u}}
  IN {pr.id : pr \in {pr \in projects : pr.id \in projectIds}}

\* getSecrets: SELECT * FROM secrets (the ids of the rows)
GetSecrets == {se.id : se \in secrets}

\* getProjectSecrets: ... WHERE project_id = p
GetProjectSecrets(p) == {se.id : se \in {se \in secrets : se.projectId = p}}

LogActivity(log, u, action, resourceType, resourceId) ==
  Append(log, [userId |-> u, action |-> action, resourceType |-> resourceType,
               resourceId |-> resourceId, timestamp |-> clock])

\* ---------------------------------------------------------------- requests
Idle == [kind |-> "none", pc |-> "idle", status |-> 0, message |-> "", user |-> 0,
         projectId |-> 0, secretId |-> 0, pname |-> NoPName, name |-> NoName,
         value |-> NoValue, target |-> 0, role |-> "none",
         secret |-> NoSecret, ssmPath |-> NoPath,
         bodyProjectId |-> NoProjectId, bodySsmPath |-> NoPath,
         pending |-> {}, result |-> {}, logs |-> <<>>]

Free(r) == req[r].pc \in {"idle", "done"}
InFlight == {r \in Slots : ~Free(r)}
InFlightOf(kinds) == {r \in Slots : ~Free(r) /\ req[r].kind \in kinds}

\* The handlers that end with storage.logActivity.
LoggingKinds == {"PostProjects", "PostUserProjects", "PostSecrets", "PutSecret",
                 "DeleteSecret", "ListSecrets"}

\* res.status(code).json(...): the request is answered; its record keeps who
\* asked for what (route, project id, secret id), the locals go away with
\* the handler's frame.  `message` is the message of an error answer.
Respond(r, code, message) ==
  [req EXCEPT ![r] = [Idle EXCEPT !.kind = req[r].kind, !.pc = "done", !.status = code,
                                  !.message = message, !.user = req[r].user,
                                  !.projectId = req[r].projectId,
                                  !.secretId = req[r].secretId]]

\* res.json(rows): the answer 200 with the rows it carries.
RespondWith(r, result, logs) ==
  [req EXCEPT ![r] = [Idle EXCEPT !.kind = req[r].kind, !.pc = "done", !.status = 200,
                                  !.user = req[r].user,
                                  !.projectId = req[r].projectId,
                                  !.result = result, !.logs = logs]]

Goto(r, pc) == [req EXCEPT ![r].pc = pc]

\* A call of a dependency rejects for an outside reason (network, outage).
Outage ==
  /\ failures < MaxFailures
  /\ failures' = failures + 1

\* The request may end with a log entry: its handler logs, and the secret it
\* addresses, if it addresses one, is there.
MayLog(rec) ==
  /\ rec.kind \in LoggingKinds
  /\ rec.kind \in {"PutSecret", "DeleteSecret"} => GetSecret(rec.secretId) # NoSecret

\* A new request enters a slot (the lowest slots are used first) and goes
\* through isAuthenticated: with a session the handler starts, without one
\* the middleware answers 401.  A request that may log is taken while the
\* log has room.
ArriveWithin(r, rec, room) ==
  /\ Free(r)
  /\ r > 1 => ~Free(r - 1)
  /\ MayLog(rec) => Len(activityLogs) < room
  /\ req' = IF IsAuthenticated(rec.user)
              THEN [req EXCEPT ![r] = rec]
              ELSE [req EXCEPT ![r] = [Idle EXCEPT !.kind = rec.kind, !.pc = "done",
                                                   !.status = 401, !.message = "Unauthorized"]]
  /\ UNCHANGED <<users, clock, db, ssm, failures>>

Arrive(r, rec) == ArriveWithin(r, rec, MaxLog)

Init ==
  /\ users = UserRoles
  /\ clock = 0
  /\ projects = {}
  /\ userProjects = {}
  /\ secrets = {}
  /\ activityLogs = <<>>
  /\ projectSeq = 1
  /\ userProjectSeq = 1
  /\ secretSeq = 1
  /\ ssm = [p \in SsmPaths |-> NoParameter]
  /\ req = [r \in Slots |-> Idle]
  /\ failures = 0

\* ------------------------------------------------------ POST /api/projects
PostProjectsStart(r, actors) ==
  \E u \in actors, pn \in ProjectNames :
    /\ (projectSeq - 1) + Cardinality(InFlightOf({"PostProjects"})) < MaxProjects
    /\ (userProjectSeq - 1) + Cardinality(InFlightOf({"PostProjects", "PostUserProjects"})) < MaxRoleRows
    /\ Arrive(r, [Idle EXCEPT !.kind = "PostProjects", !.pc = "createProject",
                              !.user = u, !.pname = pn])

\* storage.createProject(req.body)
PostProjectsCreate(r) ==
  /\ req[r].kind = "PostProjects" /\ req[r].pc = "createProject"
  /\ projects' = CreateProject(projects, projectSeq, req[r].pname)
  /\ projectSeq' = projectSeq + 1
  /\ req' = [req EXCEPT ![r] = [@ EXCEPT !.pc = "assign", !.projectId = projectSeq]]
  /\ UNCHANGED <<users, clock, userProjects, secrets, activityLogs, userProjectSeq, secretSeq, ssm, failures>>

\* storage.assignUserToProject({userId, projectId: project.id, role: "admin"})
PostProjectsAssign(r) ==
  /\ req[r].kind = "PostProjects" /\ req[r].pc = "assign"
  /\ userProjects' = AssignUserToProject(userProjects, userProjectSeq,
                                         req[r].user, req[r].projectId, "admin")
  /\ userProjectSeq' = userProjectSeq + 1
  /\ req' = Goto(r, "log")
  /\ UNCHANGED <<users, clock, projects, secrets, activityLogs, projectSeq, secretSeq, ssm, failures>>

\* storage.logActivity({action: "created", resourceType: "project"}); 201
PostProjectsLog(r) ==
  /\ req[r].kind = "PostProjects" /\ req[r].pc = "log"
  /\ activityLogs' = LogActivity(activityLogs, req[r].user, "created", "project",
                                 req[r].projectId)
  /\ req' = Respond(r, 201, "")
  /\ UNCHANGED <<users, clock, projects, userProjects, secrets, projectSeq, userProjectSeq, secretSeq, ssm, failures>>

\* ------------------------------------------------- POST /api/user-projects
PostUserProjectsStart(r, actors) ==
  \E u \in actors, t \in UserIds, p \in ProjectIds, role \in ProjectRoles :
    /\ (userProjectSeq - 1) + Cardinality(InFlightOf({"PostProjects", "PostUserProjects"})) < MaxRoleRows
    /\ Arrive(r, [Idle EXCEPT !.kind = "PostUserProjects",
                              !.pc = IF NeedsProjectRole(GlobalRole(u)) THEN "auth" ELSE "assign",
                              !.user = u, !.projectId = p, !.target = t, !.role = role])

\* storage.getUserProject(userId, projectId) and the role test
PostUserProjectsAuth(r) ==
  /\ req[r].kind = "PostUserProjects" /\ req[r].pc = "auth"
  /\ \E up \in GetUserProject(req[r].user, req[r].projectId) :
       req' = IF CanAssign(up) THEN Goto(r, "assign") ELSE Respond(r, 403, "Forbidden")
  /\ UNCHANGED <<users, clock, db, ssm, failures>>

\* storage.assignUserToProject(req.body)
PostUserProjectsAssign(r) ==
  /\ req[r].kind = "PostUserProjects" /\ req[r].pc = "assign"
  /\ userProjects' = AssignUserToProject(userProjects, userProjectSeq,
                                         req[r].target, req[r].projectId, req[r].role)
  /\ userProjectSeq' = userProjectSeq + 1
  /\ req' = Goto(r, "log")
  /\ UNCHANGED <<users, clock, projects, secrets, activityLogs, projectSeq, secretSeq, ssm, failures>>

\* storage.getUser, storage.getProject (for the details text only), then
\* storage.logActivity({action: "assigned", resourceType: "project"}); 201
PostUserProjectsLog(r) ==
  /\ req[r].kind = "PostUserProjects" /\ req[r].pc = "log"
  /\ activityLogs' = LogActivity(activityLogs, req[r].user, "assigned", "project",
                                 req[r].projectId)
  /\ req' = Respond(r, 201, "")
  /\ UNCHANGED <<users, clock, projects, userProjects, secrets, projectSeq, userProjectSeq, secretSeq, ssm, failures>>

\* ------------------------------------------------------- POST /api/secrets
PostSecretsStart(r, actors) ==
  \E u \in actors, p \in ProjectIds, n \in SecretNames, v \in SecretValues :
    /\ (secretSeq - 1) + Cardinality(InFlightOf({"PostSecrets"})) < MaxSecrets
    /\ Arrive(r, [Idle EXCEPT !.kind = "PostSecrets",
                              !.pc = IF NeedsProjectRole(GlobalRole(u)) THEN "auth" ELSE "getProject",
                              !.user = u, !.projectId = p, !.name = n, !.value = v])

\* storage.getUserProject(userId, projectId) and the role test
PostSecretsAuth(r) ==
  /\ req[r].kind = "PostSecrets" /\ req[r].pc = "auth"
  /\ \E up \in GetUserProject(req[r].user, req[r].projectId) :
       req' = IF CanCreateSecret(up) THEN Goto(r, "getProject") ELSE Respond(r, 403, "Forbidden")
  /\ UNCHANGED <<users, clock, db, ssm, failures>>

\* storage.getProject(projectId), 404 or the SSM path
PostSecretsGetProject(r) ==
  /\ req[r].kind = "PostSecrets" /\ req[r].pc = "getProject"
  /\ LET project == GetProject(req[r].projectId)
     IN req' = IF project = NoProject
                 THEN Respond(r, 404, "Project not found")
                 ELSE [req EXCEPT ![r] = [@ EXCEPT !.pc = "ssmPut",
                                             !.ssmPath = SsmPathOf(project.name, req[r].name)]]
  /\ UNCHANGED <<users, clock, db, ssm, failures>>

\* ssmClient.send(new PutParameterCommand(...)) resolves
PostSecretsSsmPut(r) ==
  /\ req[r].kind = "PostSecrets" /\ req[r].pc = "ssmPut"
  /\ ssm' = PutParameter(ssm, req[r].ssmPath, req[r].value)
  /\ req' = Goto(r, "createSecret")
  /\ UNCHANGED <<users, clock, db, failures>>

\* Mutant: the error of the put is logged and the handler goes on.
PostSecretsSsmPutFail_Swallowed(r) ==
  /\ req[r].kind = "PostSecrets" /\ req[r].pc = "ssmPut"
  /\ Outage
  /\ req' = Goto(r, "createSecret")
  /\ UNCHANGED <<users, clock, db, ssm>>

\* ssmClient.send(new PutParameterCommand(...)) rejects: the inner catch answers 500
PostSecretsSsmPutFail(r) ==
  /\ req[r].kind = "PostSecrets" /\ req[r].pc = "ssmPut"
  /\ Outage
  /\ req' = Respond(r, 500, "Failed to store secret in AWS SSM")
  /\ UNCHANGED <<users, clock, db, ssm>>

\* storage.createSecret({...req.body, ssmPath})
PostSecretsCreate(r) ==
  /\ req[r].kind = "PostSecrets" /\ req[r].pc = "createSecret"
  /\ secrets' = CreateSecret(secrets, secretSeq, req[r].name, req[r].value,
                             req[r].projectId, req[r].ssmPath)
  /\ secretSeq' = secretSeq + 1
  /\ req' = [req EXCEPT ![r] = [@ EXCEPT !.pc = "log", !.secretId = secretSeq]]
  /\ UNCHANGED <<users, clock, projects, userProjects, activityLogs, projectSeq, userProjectSeq, ssm, failures>>

\* storage.logActivity({action: "created", resourceType: "secret"}); 201
PostSecretsLog(r) ==
  /\ req[r].kind = "PostSecrets" /\ req[r].pc = "log"
  /\ activityLogs' = LogActivity(activityLogs, req[r].user, "created", "secret",
                                 req[r].secretId)
  /\ req' = Respond(r, 201, "")
  /\ UNCHANGED <<users, clock, projects, userProjects, secrets, projectSeq, userProjectSeq, secretSeq, ssm, failures>>

\* ---------------------------------------------------- PUT /api/secrets/:id
\* The body is a partial secret without validation (an empty string is a
\* value like any other); at least one field is set.
PutSecretStart(r, actors) ==
  \E u \in actors, s \in SecretIds, n \in {NoName, "K2"},
     v \in SecretValues \cup {NoValue, EmptyValue} :
    /\ n # NoName \/ v # NoValue
    /\ Arrive(r, [Idle EXCEPT !.kind = "PutSecret", !.pc = "getSecret",
                              !.user = u, !.secretId = s, !.name = n, !.value = v])

\* The log has room for a full-body update that follows the creation of a
\* project, of a role row and of a secret.
FullBodyRoom == MaxLog + 1

\* The same route with a body that carries the other columns of a secret
\* too, as the client's form sends them: projectId and ssmPath.
PutSecretStartFull(r, actors) ==
  \E u \in actors, s \in SecretIds, n \in {NoName, "K2"}, v \in {NoValue, "v2"},
     p \in ProjectIds \cup {NoProjectId}, path \in SsmPaths \cup {NoPath} :
    /\ p # NoProjectId \/ path # NoPath
    /\ ArriveWithin(r, [Idle EXCEPT !.kind = "PutSecret", !.pc = "getSecret",
                                    !.user = u, !.secretId = s, !.name = n, !.value = v,
                                    !.bodyProjectId = p, !.bodySsmPath = path],
                    FullBodyRoom)

\* if (req.body.value && req.body.value !== secret.value): undefined and the
\* empty string are both falsy.
ValueChanged(bodyValue, secret) ==
  /\ bodyValue \notin {NoValue, EmptyValue}
  /\ bodyValue # secret.value

\* storage.getSecret(secretId), 404; an admin goes on without a lookup
PutSecretGet(r) ==
  /\ req[r].kind = "PutSecret" /\ req[r].pc = "getSecret"
  /\ LET secret == GetSecret(req[r].secretId)
     IN req' = IF secret = NoSecret
                 THEN Respond(r, 404, "Secret not found")
                 ELSE [req EXCEPT ![r] = [@ EXCEPT
                         !.secret = secret, !.projectId = secret.projectId,
                         !.pc = IF NeedsProjectRole(GlobalRole(req[r].user)) THEN "auth"
                                ELSE IF ValueChanged(req[r].value, secret) THEN "ssmPut"
                                ELSE "updateSecret"]]
  /\ UNCHANGED <<users, clock, db, ssm, failures>>

\* storage.getUserProject(userId, secret.projectId) and the role test
PutSecretAuth(r) ==
  /\ req[r].kind = "PutSecret" /\ req[r].pc = "auth"
  /\ \E up \in GetUserProject(req[r].user, req[r].secret.projectId) :
       req' = IF CanUpdateSecret(up)
                THEN Goto(r, IF ValueChanged(req[r].value, req[r].secret)
                               THEN "ssmPut" ELSE "updateSecret")
                ELSE Respond(r, 403, "Forbidden")
  /\ UNCHANGED <<users, clock, db, ssm, failures>>

\* ssmClient.send(new PutParameterCommand({Name: secret.ssmPath, ...}))
PutSecretSsmPut(r) ==
  /\ req[r].kind = "PutSecret" /\ req[r].pc = "ssmPut"
  /\ ssm' = PutParameter(ssm, req[r].secret.ssmPath, req[r].value)
  /\ req' = Goto(r, "updateSecret")
  /\ UNCHANGED <<users, clock, db, failures>>

\* Mutant: the error of the put is logged and the handler goes on.
PutSecretSsmPutFail_Swallowed(r) ==
  /\ req[r].kind = "PutSecret" /\ req[r].pc = "ssmPut"
  /\ Outage
  /\ req' = Goto(r, "updateSecret")
  /\ UNCHANGED <<users, clock, db, ssm>>

\* the PutParameterCommand rejects: the inner catch answers 500
PutSecretSsmPutFail(r) ==
  /\ req[r].kind = "PutSecret" /\ req[r].pc = "ssmPut"
  /\ Outage
  /\ req' = Respond(r, 500, "Failed to update secret in AWS SSM")
  /\ UNCHANGED <<users, clock, db, ssm>>

\* Mutant: the UPDATE applies only while the row still holds the value the
\* handler read (a compare-and-set on the row).
PutSecretUpdate_IfCurrent(r) ==
  /\ req[r].kind = "PutSecret" /\ req[r].pc = "updateSecret"
  /\ secrets' = {IF se.id = req[r].secretId /\ se.value # req[r].secret.value
                   THEN se ELSE x
                 : <<se, x>> \in {<<se, x>> \in secrets \X UpdateSecret(secrets, req[r].secretId,
                                      req[r].name, req[r].value, req[r].bodyProjectId,
                                      req[r].bodySsmPath) : se.id = x.id}}
  /\ req' = Goto(r, "log")
  /\ UNCHANGED <<users, clock, projects, userProjects, activityLogs, projectSeq, userProjectSeq, secretSeq, ssm, failures>>

\* storage.updateSecret(secretId, req.body)
PutSecretUpdate(r) ==
  /\ req[r].kind = "PutSecret" /\ req[r].pc = "updateSecret"
  /\ secrets' = UpdateSecret(secrets, req[r].secretId, req[r].name, req[r].value,
                             req[r].bodyProjectId, req[r].bodySsmPath)
  /\ req' = Goto(r, "log")
  /\ UNCHANGED <<users, clock, projects, userProjects, activityLogs, projectSeq, userProjectSeq, secretSeq, ssm, failures>>

\* storage.logActivity({action: "updated", resourceType: "secret"}); 200
PutSecretLog(r) ==
  /\ req[r].kind = "PutSecret" /\ req[r].pc = "log"
  /\ activityLogs' = LogActivity(activityLogs, req[r].user, "updated", "secret",
                                 req[r].secretId)
  /\ req' = Respond(r, 200, "")
  /\ UNCHANGED <<users, clock, projects, userProjects, secrets, projectSeq, userProjectSeq, secretSeq, ssm, failures>>

\* ------------------------------------------------- DELETE /api/secrets/:id
DeleteSecretStart(r, actors) ==
  \E u \in actors, s \in SecretIds :
    Arrive(r, [Idle EXCEPT !.kind = "DeleteSecret", !.pc = "getSecret",
                           !.user = u, !.secretId = s])

\* Mutant: a DELETE of a missing secret is answered as a success.
DeleteSecretGet_Idempotent(r) ==
  /\ req[r].kind = "DeleteSecret" /\ req[r].pc = "getSecret"
  /\ LET secret == GetSecret(req[r].secretId)
     IN req' = IF secret = NoSecret
                 THEN Respond(r, 200, "")
                 ELSE [req EXCEPT ![r] = [@ EXCEPT
                         !.secret = secret, !.projectId = secret.projectId,
                         !.pc = IF NeedsProjectRole(GlobalRole(req[r].user)) THEN "auth"
                                ELSE "ssmDelete"]]
  /\ UNCHANGED <<users, clock, db, ssm, failures>>

\* storage.getSecret(secretId), 404; an admin goes on without a lookup
DeleteSecretGet(r) ==
  /\ req[r].kind = "DeleteSecret" /\ req[r].pc = "getSecret"
  /\ LET secret == GetSecret(req[r].secretId)
     IN req' = IF secret = NoSecret
                 THEN Respond(r, 404, "Secret not found")
                 ELSE [req EXCEPT ![r] = [@ EXCEPT
                         !.secret = secret, !.projectId = secret.projectId,
                         !.pc = IF NeedsProjectRole(GlobalRole(req[r].user)) THEN "auth"
                                ELSE "ssmDelete"]]
  /\ UNCHANGED <<users, clock, db, ssm, failures>>

\* Mutant: a denied delete is recorded in the log.
DeleteSecretAuth_LogDenied(r) ==
  /\ req[r].kind = "DeleteSecret" /\ req[r].pc = "auth"
  /\ \E up \in GetUserProject(req[r].user, req[r].secret.projectId) :
       IF CanDeleteSecret(up)
         THEN /\ req' = Goto(r, "ssmDelete")
              /\ activityLogs' = activityLogs
         ELSE /\ req' = Respond(r, 403, "Forbidden")
              /\ activityLogs' = LogActivity(activityLogs, req[r].user, "denied", "secret",
                                             req[r].secretId)
  /\ UNCHANGED <<users, clock, projects, userProjects, secrets, projectSeq, userProjectSeq, secretSeq,
                 ssm, failures>>

\* storage.getUserProject(userId, secret.projectId) and the role test
DeleteSecretAuth(r) ==
  /\ req[r].kind = "DeleteSecret" /\ req[r].pc = "auth"
  /\ \E up \in GetUserProject(req[r].user, req[r].secret.projectId) :
       req' = IF CanDeleteSecret(up) THEN Goto(r, "ssmDelete") ELSE Respond(r, 403, "Forbidden")
  /\ UNCHANGED <<users, clock, db, ssm, failures>>

\* Mutant: a missing parameter counts as deleted.
DeleteSecretSsmDelete_IgnoreMissing(r) ==
  /\ req[r].kind = "DeleteSecret" /\ req[r].pc = "ssmDelete"
  /\ ssm' = DeleteParameter(ssm, req[r].secret.ssmPath)
  /\ req' = Goto(r, "deleteSecret")
  /\ UNCHANGED <<users, clock, db, failures>>

\* ssmClient.send(new DeleteParameterCommand({Name: secret.ssmPath})): SSM
\* deletes an existing parameter and rejects the command for a missing one
\* (ParameterNotFound), which the inner catch answers with 500.
DeleteSecretSsmDelete(r) ==
  /\ req[r].kind = "DeleteSecret" /\ req[r].pc = "ssmDelete"
  /\ IF ssm[req[r].secret.ssmPath] # NoParameter
       THEN /\ ssm' = DeleteParameter(ssm, req[r].secret.ssmPath)
            /\ req' = Goto(r, "deleteSecret")
       ELSE /\ ssm' = ssm
            /\ req' = Respond(r, 500, "Failed to delete secret from AWS SSM")
  /\ UNCHANGED <<users, clock, db, failures>>

\* the DeleteParameterCommand rejects for an outside reason: 500
DeleteSecretSsmDeleteFail(r) ==
  /\ req[r].kind = "DeleteSecret" /\ req[r].pc = "ssmDelete"
  /\ Outage
  /\ req' = Respond(r, 500, "Failed to delete secret from AWS SSM")
  /\ UNCHANGED <<users, clock, db, ssm>>

\* storage.deleteSecret(secretId)
DeleteSecretDelete(r) ==
  /\ req[r].kind = "DeleteSecret" /\ req[r].pc = "deleteSecret"
  /\ secrets' = DeleteSecret(secrets, req[r].secretId)
  /\ req' = Goto(r, "log")
  /\ UNCHANGED <<users, clock, projects, userProjects, activityLogs, projectSeq, userProjectSeq, secretSeq, ssm, failures>>

\* storage.logActivity({action: "deleted", resourceType: "secret"}); 200
DeleteSecretLog(r) ==
  /\ req[r].kind = "DeleteSecret" /\ req[r].pc = "log"
  /\ activityLogs' = LogActivity(activityLogs, req[r].user, "deleted", "secret",
                                 req[r].secretId)
  /\ req' = Respond(r, 200, "")
  /\ UNCHANGED <<users, clock, projects, userProjects, secrets, projectSeq, userProjectSeq, secretSeq, ssm, failures>>

\* -------------------------------------------------- GET /api/projects/:id
GetProjectStart(r, actors) ==
  \E u \in actors, p \in ProjectIds :
    Arrive(r, [Idle EXCEPT !.kind = "GetProject", !.pc = "getProject",
                           !.user = u, !.projectId = p])

\* storage.getProject(projectId), 404; an admin is answered without a lookup
GetProjectGet(r) ==
  /\ req[r].kind = "GetProject" /\ req[r].pc = "getProject"
  /\ req' = IF GetProject(req[r].projectId) = NoProject THEN Respond(r, 404, "Project not found")
            ELSE IF NeedsProjectRole(GlobalRole(req[r].user)) THEN Goto(r, "auth")
            ELSE Respond(r, 200, "")
  /\ UNCHANGED <<users, clock, db, ssm, failures>>

\* storage.getUserProject(userId, projectId) and the membership test
GetProjectAuth(r) ==
  /\ req[r].kind = "GetProject" /\ req[r].pc = "auth"
  /\ \E up \in GetUserProject(req[r].user, req[r].projectId) :
       req' = IF CanViewProject(up) THEN Respond(r, 200, "") ELSE Respond(r, 403, "Forbidden")
  /\ UNCHANGED <<users, clock, db, ssm, failures>>

\* ------------------------------------------ GET /api/projects/:id/secrets
ListSecretsStart(r, actors) ==
  \E u \in actors, p \in ProjectIds :
    Arrive(r, [Idle EXCEPT !.kind = "ListSecrets",
                           !.pc = IF NeedsProjectRole(GlobalRole(u)) THEN "auth" ELSE "read",
                           !.user = u, !.projectId = p])

\* storage.getUserProject(userId, projectId) and the membership test
ListSecretsAuth(r) ==
  /\ req[r].kind = "ListSecrets" /\ req[r].pc = "auth"
  /\ \E up \in GetUserProject(req[r].user, req[r].projectId) :
       req' = IF CanListSecrets(up) THEN Goto(r, "read") ELSE Respond(r, 403, "Forbidden")
  /\ UNCHANGED <<users, clock, db, ssm, failures>>

\* storage.getProjectSecrets(projectId)
ListSecretsRead(r) ==
  /\ req[r].kind = "ListSecrets" /\ req[r].pc = "read"
  /\ req' = Goto(r, "log")
  /\ UNCHANGED <<users, clock, db, ssm, failures>>

\* storage.logActivity({action: "viewed", resourceType: "project"}); 200
ListSecretsLog(r) ==
  /\ req[r].kind = "ListSecrets" /\ req[r].pc = "log"
  /\ activityLogs' = LogActivity(activityLogs, req[r].user, "viewed", "project",
                                 req[r].projectId)
  /\ req' = Respond(r, 200, "")
  /\ UNCHANGED <<users, clock, projects, userProjects, secrets, projectSeq, userProjectSeq, secretSeq, ssm, failures>>

\* -------------------------------------------- GET /api/projects/:id/users
ListUsersStart(r, actors) ==
  \E u \in actors, p \in ProjectIds :
    Arrive(r, [Idle EXCEPT !.kind = "ListUsers",
                           !.pc = IF NeedsProjectRole(GlobalRole(u)) THEN "auth" ELSE "read",
                           !.user = u, !.projectId = p])

\* storage.getUserProject(userId, projectId) and the membership test
ListUsersAuth(r) ==
  /\ req[r].kind = "ListUsers" /\ req[r].pc = "auth"
  /\ \E up \in GetUserProject(req[r].user, req[r].projectId) :
       req' = IF CanListUsers(up) THEN Goto(r, "read") ELSE Respond(r, 403, "Forbidden")
  /\ UNCHANGED <<users, clock, db, ssm, failures>>

\* storage.getProjectUsers(projectId) and storage.getUser of each; 200
ListUsersRead(r) ==
  /\ req[r].kind = "ListUsers" /\ req[r].pc = "read"
  /\ req' = Respond(r, 200, "")
  /\ UNCHANGED <<users, clock, db, ssm, failures>>

\* ------------------------------------ GET /api/projects/:id/activity-logs
ListLogsStart(r, actors) ==
  \E u \in actors, p \in ProjectIds :
    Arrive(r, [Idle EXCEPT !.kind = "ListLogs",
                           !.pc = IF NeedsProjectRole(GlobalRole(u)) THEN "auth" ELSE "read",
                           !.user = u, !.projectId = p])

\* storage.getUserProject(userId, projectId) and the membership test
ListLogsAuth(r) ==
  /\ req[r].kind = "ListLogs" /\ req[r].pc = "auth"
  /\ \E up \in GetUserProject(req[r].user, req[r].projectId) :
       req' = IF CanListLogs(up) THEN Goto(r, "read") ELSE Respond(r, 403, "Forbidden")
  /\ UNCHANGED <<users, clock, db, ssm, failures>>

\* storage.getProjectActivityLogs(projectId) and the enrichment reads; 200
ListLogsRead(r) ==
  /\ req[r].kind = "ListLogs" /\ req[r].pc = "read"
  /\ \E logs \in OrderByTimestampDesc(GetProjectActivityLogs(req[r].projectId)) :
       req' = RespondWith(r, {logs[i] : i \in DOMAIN logs}, logs)
  /\ UNCHANGED <<users, clock, db, ssm, failures>>

\* ------------------------------------------------- POST /api/auth/register
\* The roles a body that passes insertUserSchema may name.
GlobalRoles == {"admin", "user"}

\* No middleware guards the route: whoever sends the request is served.
RegisterStart(r) ==
  \E role \in GlobalRoles :
    /\ Free(r)
    /\ r > 1 => ~Free(r - 1)
    /\ Len(users) < MaxUsers
    /\ req' = [req EXCEPT ![r] = [Idle EXCEPT !.kind = "Register", !.pc = "createUser",
                                              !.role = role]]
    /\ UNCHANGED <<users, clock, db, ssm, failures>>

\* storage.createUser(req.body); req.login(user): the session of the caller
\* is that of the new user; 201
RegisterCreate(r) ==
  /\ req[r].kind = "Register" /\ req[r].pc = "createUser"
  /\ users' = CreateUser(users, req[r].role)
  /\ req' = [req EXCEPT ![r] = [Idle EXCEPT !.kind = "Register", !.pc = "done",
                                            !.status = 201, !.user = Len(users) + 1]]
  /\ UNCHANGED <<clock, db, ssm, failures>>

\* --------------------------------------------------------- POST /api/users
\* No middleware guards this route either.
PostUsersStart(r) ==
  \E role \in GlobalRoles :
    /\ Free(r)
    /\ r > 1 => ~Free(r - 1)
    /\ Len(users) < MaxUsers
    /\ req' = [req EXCEPT ![r] = [Idle EXCEPT !.kind = "PostUsers", !.pc = "createUser",
                                              !.role = role]]
    /\ UNCHANGED <<users, clock, db, ssm, failures>>

\* storage.createUser(req.body); 201. The caller's session is not changed.
PostUsersCreate(r) ==
  /\ req[r].kind = "PostUsers" /\ req[r].pc = "createUser"
  /\ users' = CreateUser(users, req[r].role)
  /\ req' = [req EXCEPT ![r] = [Idle EXCEPT !.kind = "PostUsers", !.pc = "done",
                                            !.status = 201, !.target = Len(users) + 1]]
  /\ UNCHANGED <<clock, db, ssm, failures>>

\* ------------------------------------------------------ GET /api/projects
AllProjectsStart(r, actors) ==
  \E u \in actors :
    Arrive(r, [Idle EXCEPT !.kind = "AllProjects", !.pc = "read", !.user = u])

\* storage.getProjects() for a global admin, storage.getUserProjects(userId)
\* for everybody else; 200
AllProjectsRead(r) ==
  /\ req[r].kind = "AllProjects" /\ req[r].pc = "read"
  /\ req' = RespondWith(r, IF GlobalRole(req[r].user) = "admin"
                             THEN GetProjects ELSE GetUserProjects(req[r].user), <<>>)
  /\ UNCHANGED <<users, clock, db, ssm, failures>>

\* ------------------------------------------------------- GET /api/secrets
AllSecretsStart(r, actors) ==
  \E u \in actors :
    Arrive(r, [Idle EXCEPT !.kind = "AllSecrets", !.pc = "read", !.user = u])

\* storage.getSecrets() for a global admin; storage.getUserProjects(userId)
\* for everybody else, whose projects the loop then goes through.
AllSecretsRead(r) ==
  /\ req[r].kind = "AllSecrets" /\ req[r].pc = "read"
  /\ req' = IF GlobalRole(req[r].user) = "admin"
              THEN RespondWith(r, GetSecrets, <<>>)
              ELSE IF GetUserProjects(req[r].user) = {}
                     THEN RespondWith(r, {}, <<>>)
                     ELSE [req EXCEPT ![r].pc = "loop",
                                      ![r].pending = GetUserProjects(req[r].user)]
  /\ UNCHANGED <<users, clock, db, ssm, failures>>

\* for (const project of userProjects): storage.getProjectSecrets(project.id),
\* secrets.push(...projectSecrets); 200 after the last project
AllSecretsLoop(r) ==
  /\ req[r].kind = "AllSecrets" /\ req[r].pc = "loop"
  /\ \E p \in req[r].pending :
       LET result == req[r].result \cup GetProjectSecrets(p)
       IN req' = IF req[r].pending = {p}
                   THEN RespondWith(r, result, <<>>)
                   ELSE [req EXCEPT ![r].pending = @ \ {p}, ![r].result = result]
  /\ UNCHANGED <<users, clock, db, ssm, failures>>

\* -------------------------------------------------- GET /api/activity-logs
AllLogsStart(r, actors) ==
  \E u \in actors :
    Arrive(r, [Idle EXCEPT !.kind = "AllLogs", !.pc = "read", !.user = u])

\* storage.getActivityLogs() for a global admin, storage.getUserActivityLogs(
\* userId) for everybody else, and the enrichment reads; 200
AllLogsRead(r) ==
  /\ req[r].kind = "AllLogs" /\ req[r].pc = "read"
  /\ \E logs \in OrderByTimestampDesc(IF GlobalRole(req[r].user) = "admin"
                                         THEN GetActivityLogs
                                         ELSE GetUserActivityLogs(req[r].user)) :
       req' = RespondWith(r, {logs[i] : i \in DOMAIN logs}, logs)
  /\ UNCHANGED <<users, clock, db, ssm, failures>>

\* The server's clock moves on: new Date() gives a later instant.
Tick ==
  /\ clock < MaxClock
  /\ clock' = clock + 1
  /\ UNCHANGED <<db, users, ssm, req, failures>>

\* ------------------------------------------------------ dependency failure
\* The positions at which the pending call is a storage call.
DbPcs == {"auth", "getProject", "getSecret", "read", "loop", "createProject", "assign",
          "createSecret", "updateSecret", "deleteSecret", "log"}

\* The message of the outer catch block of each handler.
CatchMessage(kind) ==
  CASE kind = "PostProjects" -> "Failed to create project"
    [] kind = "PostUserProjects" -> "Failed to assign user to project"
    [] kind = "PostSecrets" -> "Failed to create secret"
    [] kind = "PutSecret" -> "Failed to update secret"
    [] kind = "DeleteSecret" -> "Failed to delete secret"
    [] kind = "GetProject" -> "Failed to get project"
    [] kind = "ListSecrets" -> "Failed to get project secrets"
    [] kind = "ListUsers" -> "Failed to get project users"
    [] kind = "ListLogs" -> "Failed to get project activity logs"
    [] kind = "AllProjects" -> "Failed to get projects"
    [] kind = "AllSecrets" -> "Failed to get secrets"
    [] kind = "AllLogs" -> "Failed to get activity logs"

\* Mutant: the catch block of the create handler compensates: it deletes
\* the parameter the handler has just put.
DbFail_Compensate(r) ==
  /\ req[r].pc \in DbPcs
  /\ Outage
  /\ req' = Respond(r, 500, CatchMessage(req[r].kind))
  /\ ssm' = IF req[r].kind = "PostSecrets" /\ req[r].pc = "createSecret"
              THEN DeleteParameter(ssm, req[r].ssmPath) ELSE ssm
  /\ UNCHANGED <<users, clock, db>>

\* A storage call rejects: the handler's outer catch block answers 500 and
\* nothing that was done before is undone.
DbFail(r) ==
  /\ req[r].pc \in DbPcs
  /\ Outage
  /\ req' = Respond(r, 500, CatchMessage(req[r].kind))
  /\ UNCHANGED <<users, clock, db, ssm>>

\* ------------------------------------------- direct calls of the storage
\* storage.removeUserFromProject(u, p): no route calls it; it is called on
\* the storage between two requests, for a pair that has a row.
RemoveUserFromProjectCall ==
  \E u \in UserIds, p \in ProjectIds :
    /\ \A r \in Slots : Free(r)
    /\ \E up \in userProjects : up.userId = u /\ up.projectId = p
    /\ userProjects' = RemoveUserFromProject(userProjects, u, p)
    /\ UNCHANGED <<users, clock, projects, secrets, activityLogs, projectSeq, userProjectSeq, secretSeq,
                   ssm, req, failures>>

\* -------------------------------------------------------------------- next
\* The handlers of the project and role endpoints.
ProjectStep(r, actors) ==
  \/ PostProjectsStart(r, actors)
  \/ PostProjectsCreate(r)
  \/ PostProjectsAssign(r)
  \/ PostProjectsLog(r)

RoleStep(r, actors) ==
  \/ PostUserProjectsStart(r, actors)
  \/ PostUserProjectsAuth(r)
  \/ PostUserProjectsAssign(r)
  \/ PostUserProjectsLog(r)

\* The handlers of the secret endpoints, every SSM call succeeding unless
\* the parameter is missing.
SecretStep(r, actors) ==
  \/ PostSecretsStart(r, actors)
  \/ PostSecretsAuth(r)
  \/ PostSecretsGetProject(r)
  \/ PostSecretsSsmPut(r)
  \/ PostSecretsCreate(r)
  \/ PostSecretsLog(r)
  \/ PutSecretStart(r, actors)
  \/ PutSecretGet(r)
  \/ PutSecretAuth(r)
  \/ PutSecretSsmPut(r)
  \/ PutSecretUpdate(r)
  \/ PutSecretLog(r)
  \/ DeleteSecretStart(r, actors)
  \/ DeleteSecretGet(r)
  \/ DeleteSecretAuth(r)
  \/ DeleteSecretSsmDelete(r)
  \/ DeleteSecretDelete(r)
  \/ DeleteSecretLog(r)

\* The read endpoints of a project.
ViewStep(r, actors) ==
  \/ GetProjectStart(r, actors)
  \/ GetProjectGet(r)
  \/ GetProjectAuth(r)
  \/ ListSecretsStart(r, actors)
  \/ ListSecretsAuth(r)
  \/ ListSecretsRead(r)
  \/ ListSecretsLog(r)
  \/ ListUsersStart(r, actors)
  \/ ListUsersAuth(r)
  \/ ListUsersRead(r)
  \/ ListLogsStart(r, actors)
  \/ ListLogsAuth(r)
  \/ ListLogsRead(r)

\* A dependency call rejecting for an outside reason.
FailStep(r) ==
  \/ PostSecretsSsmPutFail(r)
  \/ PutSecretSsmPutFail(r)
  \/ DeleteSecretSsmDeleteFail(r)
  \/ DbFail(r)

\* Spec: requests of every user to every endpoint, handled one after
\* another, the database and SSM being up.
Next ==
  \/ ProjectStep(1, UserIds)
  \/ RoleStep(1, UserIds)
  \/ SecretStep(1, UserIds)
  \/ ViewStep(1, UserIds)

Spec == Init /\ [][Next]_vars

\* SpecFail: the write-through endpoints and project creation, handled one
\* after another, with dependency calls that can fail.
NextFail ==
  \/ ProjectStep(1, UserIds)
  \/ SecretStep(1, UserIds)
  \/ FailStep(1)

SpecFail == Init /\ [][NextFail]_vars

\* SpecAccess: requests to every endpoint, sent without a session or by the
\* users who are not global admins, handled one after another, and removals
\* of role rows in between.
AccessActors == {NoUser} \cup {u \in UserIds : GlobalRole(u) # "admin"}

NextAccess ==
  \/ ProjectStep(1, AccessActors)
  \/ RoleStep(1, AccessActors)
  \/ SecretStep(1, AccessActors)
  \/ ViewStep(1, AccessActors)
  \/ RemoveUserFromProjectCall

SpecAccess == Init /\ [][NextAccess]_vars

\* The steps of the secret handlers for a global admin, who passes without a
\* role lookup.
WriteThroughStep(r, actors) ==
  \/ PostSecretsStart(r, actors)
  \/ PostSecretsGetProject(r)
  \/ PostSecretsSsmPut(r)
  \/ PostSecretsCreate(r)
  \/ PostSecretsLog(r)
  \/ PutSecretStart(r, actors)
  \/ PutSecretGet(r)
  \/ PutSecretSsmPut(r)
  \/ PutSecretUpdate(r)
  \/ PutSecretLog(r)
  \/ DeleteSecretStart(r, actors)
  \/ DeleteSecretGet(r)
  \/ DeleteSecretSsmDelete(r)
  \/ DeleteSecretDelete(r)
  \/ DeleteSecretLog(r)

\* SpecConc: the global admins create projects and send secret requests, two
\* of which can be in flight together and interleave at their awaits.
Admins == {u \in UserIds : GlobalRole(u) = "admin"}

NextConc ==
  \/ ProjectStep(1, Admins)
  \/ \E r \in Slots : WriteThroughStep(r, Admins)

SpecConc == Init /\ [][NextConc]_vars

\* SpecBody: the users who are not global admins create projects and secrets
\* and send updates whose body carries any column of a secret.
NonAdmins == {u \in UserIds : GlobalRole(u) # "admin"}

NextBody ==
  \/ ProjectStep(1, NonAdmins)
  \/ PostSecretsStart(1, NonAdmins)
  \/ PostSecretsAuth(1)
  \/ PostSecretsGetProject(1)
  \/ PostSecretsSsmPut(1)
  \/ PostSecretsCreate(1)
  \/ PostSecretsLog(1)
  \/ PutSecretStartFull(1, NonAdmins)
  \/ PutSecretGet(1)
  \/ PutSecretAuth(1)
  \/ PutSecretSsmPut(1)
  \/ PutSecretUpdate(1)
  \/ PutSecretLog(1)

SpecBody == Init /\ [][NextBody]_vars

\* SpecLogs: projects, role rows and secrets are created while the clock
\* moves on, and the three log queries are answered.
NextLogs ==
  \/ ProjectStep(1, UserIds)
  \/ PostSecretsStart(1, UserIds)
  \/ PostSecretsAuth(1)
  \/ PostSecretsGetProject(1)
  \/ PostSecretsSsmPut(1)
  \/ PostSecretsCreate(1)
  \/ PostSecretsLog(1)
  \/ AllLogsStart(1, UserIds)
  \/ AllLogsRead(1)
  \/ ListLogsStart(1, UserIds)
  \/ ListLogsAuth(1)
  \/ ListLogsRead(1)
  \/ Tick

SpecLogs == Init /\ [][NextLogs]_vars

\* SpecList: a global admin creates projects, role rows and secrets and
\* updates secrets with full bodies; the three unscoped lists are answered to
\* every user.
NextList ==
  \/ ProjectStep(1, Admins)
  \/ PostUserProjectsStart(1, Admins)
  \/ PostUserProjectsAssign(1)
  \/ PostUserProjectsLog(1)
  \/ PostSecretsStart(1, Admins)
  \/ PostSecretsGetProject(1)
  \/ PostSecretsSsmPut(1)
  \/ PostSecretsCreate(1)
  \/ PostSecretsLog(1)
  \/ PutSecretStartFull(1, Admins)
  \/ PutSecretGet(1)
  \/ PutSecretSsmPut(1)
  \/ PutSecretUpdate(1)
  \/ PutSecretLog(1)
  \/ AllProjectsStart(1, UserIds)
  \/ AllProjectsRead(1)
  \/ AllSecretsStart(1, UserIds)
  \/ AllSecretsRead(1)
  \/ AllSecretsLoop(1)
  \/ AllLogsStart(1, UserIds)
  \/ AllLogsRead(1)

SpecList == Init /\ [][NextList]_vars

\* The callers who start without a session or without the global admin role:
\* nobody, the seeded users who are not admins, and every account created
\* through the two open routes.
Outsiders == {NoUser} \cup (DOMAIN users \ Admins)

\* SpecOutsider: the seeded global admin creates projects and secrets; the
\* outsiders register accounts, create users, and ask for all secrets.
NextOutsider ==
  \/ ProjectStep(1, Admins)
  \/ PostSecretsStart(1, Admins)
  \/ PostSecretsGetProject(1)
  \/ PostSecretsSsmPut(1)
  \/ PostSecretsCreate(1)
  \/ PostSecretsLog(1)
  \/ RegisterStart(1)
  \/ RegisterCreate(1)
  \/ PostUsersStart(1)
  \/ PostUsersCreate(1)
  \/ AllSecretsStart(1, Outsiders)
  \/ AllSecretsRead(1)

SpecOutsider == Init /\ [][NextOutsider]_vars

\* =================================================================== claims
NonAdmin(u) == GlobalRole(u) # "admin"

\* The user_projects rows of user u in project p.
RowsOf(u, p) == {up \in userProjects : up.userId = u /\ up.projectId = p}

\* The role of u in p: the role of the latest assignment (the row with the
\* greatest serial id), "none" without a row.
RoleIn(u, p) ==
  IF RowsOf(u, p) = {} THEN "none"
  ELSE (CHOOSE up \in RowsOf(u, p) : \A other \in RowsOf(u, p) : other.id <= up.id).role

\* The endpoints that act on one project (or on a secret of one project).
ProjectScoped == {"GetProject", "ListSecrets", "ListUsers", "ListLogs",
                  "PostSecrets", "PutSecret", "DeleteSecret", "PostUserProjects"}

\* The positions of a handler behind its authorization check.
AfterAuth(kind) ==
  CASE kind = "PostSecrets" -> {"getProject", "ssmPut", "createSecret", "log"}
    [] kind = "PutSecret" -> {"ssmPut", "updateSecret", "log"}
    [] kind = "DeleteSecret" -> {"ssmDelete", "deleteSecret", "log"}
    [] kind = "PostUserProjects" -> {"assign", "log"}
    [] kind = "ListSecrets" -> {"read", "log"}
    [] kind = "ListUsers" -> {"read"}
    [] kind = "ListLogs" -> {"read"}
    [] OTHER -> {}

\* The request of the record is answered 403.
Denied(rec) == rec.pc = "done" /\ rec.status = 403

\* The request of the record has passed the authorization check of its
\* handler: it is in the handler's body, or answered with a success status.
Admitted(rec) ==
  \/ rec.pc \in AfterAuth(rec.kind)
  \/ rec.pc = "done" /\ rec.status \in {200, 201}

\* The step decides the authorization of the request in slot r.
Decides(r) == req[r].pc = "auth" /\ req'[r] # req[r]

\* C1: a user who is not a global admin and has no user_projects row for
\* project P is answered 403 by every project-scoped endpoint: the step that
\* decides such a request denies it, and no request of a non-admin user gets
\* behind the check of its handler except by a decision made while the user
\* has a row for the project.
C1_NoRowDenied ==
  [][\A r \in Slots :
       /\ (Decides(r) /\ NonAdmin(req[r].user) /\ RowsOf(req[r].user, req[r].projectId) = {})
            => Denied(req'[r])
       /\ (/\ req'[r].kind \in ProjectScoped
           /\ NonAdmin(req'[r].user)
           /\ Admitted(req'[r])
           /\ ~(req[r].kind = req'[r].kind /\ Admitted(req[r])))
            => (req[r].pc = "auth" /\ RowsOf(req[r].user, req[r].projectId) # {})
    ]_vars

\* C1 witness: a non-admin user without a row for the project was answered 403.
C1_Witness ==
  \E r \in Slots :
    /\ Denied(req[r]) /\ NonAdmin(req[r].user)
    /\ req[r].kind = "PostSecrets"
    /\ projects # {}
    /\ RowsOf(req[r].user, req[r].projectId) = {}

\* C2: no project or secret endpoint answers 403 to a global admin, with or
\* without a user_projects row.
C2_AdminNever403 ==
  \A r \in Slots : (req[r].user # 0 /\ ~NonAdmin(req[r].user)) => req[r].status # 403

\* C2 witness: a global admin without a row for the project of a secret is
\* behind the authorization of DELETE /api/secrets/:id.
C2_Witness ==
  \E r \in Slots :
    /\ req[r].kind = "DeleteSecret" /\ req[r].pc = "ssmDelete"
    /\ ~NonAdmin(req[r].user)
    /\ RowsOf(req[r].user, req[r].projectId) = {}

\* C3 (the claim as stated): a non-admin user whose role in P is viewer is
\* denied create, update and delete of P's secrets and is allowed to view P
\* and to list P's secrets.
C3_ViewerReadOnly ==
  [][\A r \in Slots :
       (Decides(r) /\ RoleIn(req[r].user, req[r].projectId) = "viewer")
         => /\ req[r].kind \in {"PostSecrets", "PutSecret", "DeleteSecret"} => Denied(req'[r])
            /\ req[r].kind \in {"GetProject", "ListSecrets"} => Admitted(req'[r])
    ]_vars

\* C4 (the claim as stated): for a non-admin user, create and update secret
\* are allowed exactly when the user's role in P is admin or editor; delete
\* secret and role assignment exactly when it is admin.
C4_WriteRoles ==
  [][\A r \in Slots :
       Decides(r)
         => /\ req[r].kind \in {"PostSecrets", "PutSecret"}
                 => (Admitted(req'[r]) <=> RoleIn(req[r].user, req[r].projectId) \in {"admin", "editor"})
            /\ req[r].kind \in {"DeleteSecret", "PostUserProjects"}
                 => (Admitted(req'[r]) <=> RoleIn(req[r].user, req[r].projectId) = "admin")
    ]_vars

\* The step is an outage of the dependency call pending in slot r.
FailsAt(r, kind, pc) == req[r].kind = kind /\ req[r].pc = pc /\ failures' # failures

\* The step brings the request in slot r to position pc.
Enters(r, kind, pc) == req'[r].kind = kind /\ req'[r].pc = pc /\ req[r].pc # pc

\* The request of the record was answered 500 and nothing else.
Failed(rec) == rec.pc = "done" /\ rec.status = 500

\* C5: when the SSM put of POST /api/secrets fails, the request is answered
\* with an error, no secret row is inserted and no activity is logged; a
\* request reaches the insert only through a put that stored its value.
C5_CreatePutFailure ==
  [][\A r \in Slots :
       /\ FailsAt(r, "PostSecrets", "ssmPut")
            => /\ Failed(req'[r])
               /\ secrets' = secrets
               /\ activityLogs' = activityLogs
       /\ Enters(r, "PostSecrets", "createSecret")
            => /\ req[r].pc = "ssmPut"
               /\ failures' = failures
               /\ ssm'[req[r].ssmPath] = req[r].value
    ]_vars

\* C5 witness: a create was answered with the SSM error; there is neither a
\* secret row nor a log entry of a created secret.
C5_Witness ==
  \E r \in Slots :
    /\ req[r].kind = "PostSecrets" /\ Failed(req[r])
    /\ req[r].message = "Failed to store secret in AWS SSM"
    /\ secrets = {}
    /\ \A i \in DOMAIN activityLogs : activityLogs[i].resourceType # "secret"

\* The SSM delete pending in slot r does not succeed at this step: an outage,
\* or the parameter is missing.
DeleteFailsAt(r) ==
  \/ FailsAt(r, "DeleteSecret", "ssmDelete")
  \/ /\ req[r].kind = "DeleteSecret" /\ req[r].pc = "ssmDelete"
     /\ req'[r] # req[r]
     /\ ssm[req[r].secret.ssmPath] = NoParameter

\* C6: when the SSM delete of DELETE /api/secrets/:id fails, for any reason
\* including a missing parameter, the secret row is not deleted and nothing
\* is logged; a row is removed only by a request whose SSM delete succeeded.
C6_DeleteFailure ==
  [][\A r \in Slots :
       /\ DeleteFailsAt(r)
            => /\ Failed(req'[r])
               /\ secrets' = secrets
               /\ activityLogs' = activityLogs
       /\ Enters(r, "DeleteSecret", "deleteSecret")
            => /\ req[r].pc = "ssmDelete"
               /\ failures' = failures
               /\ ssm[req[r].secret.ssmPath] # NoParameter
               /\ ssm'[req[r].secret.ssmPath] = NoParameter
       /\ (\E se \in secrets : \A other \in secrets' : other.id # se.id)
            => \E q \in Slots : req[q].kind = "DeleteSecret" /\ req[q].pc = "deleteSecret"
    ]_vars

\* C6 witness: a delete was answered with the SSM error because the parameter
\* is missing, and the secret row is still there.
C6_Witness ==
  \E r \in Slots :
    /\ req[r].kind = "DeleteSecret" /\ Failed(req[r])
    /\ req[r].message = "Failed to delete secret from AWS SSM"
    /\ \E se \in secrets : se.id = req[r].secretId /\ ssm[se.ssmPath] = NoParameter

\* C7: when PUT /api/secrets/:id carries a value different from the stored
\* one and the SSM put fails, the request aborts, the secrets table is left as
\* it was and nothing is logged; the SSM put is pending only for a changed
\* value, and the row update follows only a put that succeeded.
C7_UpdatePutFailure ==
  [][\A r \in Slots :
       /\ FailsAt(r, "PutSecret", "ssmPut")
            => /\ ValueChanged(req[r].value, req[r].secret)
               /\ Failed(req'[r])
               /\ secrets' = secrets
               /\ activityLogs' = activityLogs
       /\ (Enters(r, "PutSecret", "updateSecret") /\ ValueChanged(req'[r].value, req'[r].secret))
            => /\ req[r].pc = "ssmPut"
               /\ failures' = failures
               /\ ssm'[req[r].secret.ssmPath] = req[r].value
    ]_vars

\* C7 witness: an update was answered with the SSM error and the row it
\* addressed is still in the table.
C7_Witness ==
  \E r \in Slots :
    /\ req[r].kind = "PutSecret" /\ Failed(req[r])
    /\ req[r].message = "Failed to update secret in AWS SSM"
    /\ \E se \in secrets : se.id = req[r].secretId

\* C8 (the claim as stated): whenever no request is being handled, every
\* secret row has a parameter in SSM at its ssmPath.
C8_IndexNeverDangling ==
  (\A r \in Slots : Free(r)) => \A se \in secrets : ssm[se.ssmPath] # NoParameter

\* C9 (the claim as stated): there is at most one user_projects row per
\* (userId, projectId).
C9_OneRowPerPair ==
  \A a \in userProjects, b \in userProjects :
    (a.userId = b.userId /\ a.projectId = b.projectId) => a.id = b.id

\* The log says that user u created project p.
CreatedBy(u, p) ==
  \E i \in DOMAIN activityLogs :
    /\ activityLogs[i].userId = u
    /\ activityLogs[i].action = "created"
    /\ activityLogs[i].resourceType = "project"
    /\ activityLogs[i].resourceId = p

\* C10 (the claim as stated): when POST /api/projects of a non-admin user U
\* succeeds for project P, the row {U, P, admin} exists, and a following
\* POST /api/secrets of U for P (no other role having been assigned to U in
\* P since) passes the authorization.
C10_CreatorIsAdmin ==
  [][\A r \in Slots :
       /\ (/\ req[r].kind = "PostProjects" /\ NonAdmin(req[r].user)
           /\ req[r].pc = "log" /\ req'[r].pc = "done" /\ req'[r].status = 201)
            => \E up \in userProjects' :
                 up.userId = req[r].user /\ up.projectId = req[r].projectId /\ up.role = "admin"
       /\ (/\ Decides(r) /\ req[r].kind = "PostSecrets"
           /\ CreatedBy(req[r].user, req[r].projectId)
           /\ RoleIn(req[r].user, req[r].projectId) = "admin")
            => Admitted(req'[r])
    ]_vars

\* The slug of a project name as the specification words it: the name in
\* lower case, each space replaced by a hyphen.
LowerCased(c) == CASE c = "A" -> "a" [] c = "B" -> "b" [] OTHER -> c

Slug(name) ==
  [i \in 1..Len(name) |-> IF LowerCased(name[i]) = " " THEN "-" ELSE LowerCased(name[i])]

\* The row of the secret that the request in slot r creates is as the round
\* trip wants it, in the state after the step.
RoundTrip(r) ==
  \E se \in secrets' :
    /\ se.id = req'[r].secretId
    /\ \A other \in secrets' : other.id = se.id => other = se
    /\ se.ssmPath = <<Slug(GetProject(req[r].projectId).name), req[r].name>>
    /\ se.value = req[r].value
    /\ ssm'[se.ssmPath] = req[r].value

\* C11: after a successful create of a secret named n with value v in project
\* p, the row read by the secret's id has the ssmPath
\* /secrets-manager/<slug of p.name>/<n> and the value that was put into SSM
\* at that path: so it is when the row is inserted and when the request is
\* answered 201.
C11_CreateRoundTrip ==
  [][\A r \in Slots :
       /\ (req[r].kind = "PostSecrets" /\ req[r].pc = "createSecret" /\ req'[r].pc = "log")
            => RoundTrip(r)
       /\ (req[r].kind = "PostSecrets" /\ req[r].pc = "log" /\ req'[r].status = 201)
            => RoundTrip(r)
    ]_vars

\* C11 witness: a create was answered 201 and the row of its secret has the
\* slug path and the value stored in SSM.
C11_Witness ==
  \E r \in Slots :
    /\ req[r].kind = "PostSecrets" /\ req[r].pc = "done" /\ req[r].status = 201
    /\ GetSecret(req[r].secretId).ssmPath = <<(<<"a", "-", "b">>), "K1">>
    /\ GetSecret(req[r].secretId).value = "v2"
    /\ ssm[GetSecret(req[r].secretId).ssmPath] = "v2"

\* C12 (the claim as stated): PUT /api/secrets/:id calls SSM exactly when the
\* value of the request is present and differs from the stored value; a
\* request whose value is absent or equal goes to the row update without an
\* SSM call, and no other step of the handler writes to SSM.
C12_PutWritesSsmIffChanged ==
  [][\A r \in Slots :
       /\ (/\ req[r].kind = "PutSecret" /\ req[r].pc \in {"getSecret", "auth"}
           /\ req'[r].pc \in {"ssmPut", "updateSecret"})
            => (req'[r].pc = "ssmPut"
                  <=> /\ req[r].value # NoValue
                      /\ req[r].value # GetSecret(req[r].secretId).value)
       /\ (req[r].kind = "PutSecret" /\ ~Free(r) /\ ssm' # ssm) => req[r].pc = "ssmPut"
    ]_vars

\* The log says that secret s was deleted: a DELETE of s went through.
DeletedBefore(s) ==
  \E i \in DOMAIN activityLogs :
    /\ activityLogs[i].action = "deleted"
    /\ activityLogs[i].resourceType = "secret"
    /\ activityLogs[i].resourceId = s

\* C13: after a successful DELETE /api/secrets/:id, a second DELETE of the
\* same id is answered 404 by its first step and changes neither the
\* database tables, nor the log, nor SSM.
C13_DoubleDelete ==
  [][\A r \in Slots :
       (/\ req[r].kind = "DeleteSecret" /\ ~Free(r)
        /\ DeletedBefore(req[r].secretId)
        /\ req'[r] # req[r])
         => /\ req'[r].pc = "done" /\ req'[r].status = 404
            /\ UNCHANGED <<db, ssm>>
    ]_vars

\* C13 witness: a DELETE of a secret that the log shows as deleted was
\* answered 404.
C13_Witness ==
  \E r \in Slots :
    /\ req[r].kind = "DeleteSecret" /\ req[r].pc = "done" /\ req[r].status = 404
    /\ DeletedBefore(req[r].secretId)
    /\ GetSecret(req[r].secretId) = NoSecret

\* User u created project p, so held its admin-role assignment, and holds no
\* admin-role assignment of p any more.
FormerAdmin(u, p) ==
  /\ CreatedBy(u, p)
  /\ \A up \in RowsOf(u, p) : up.role # "admin"

\* C14: removeUserFromProject leaves no row of the removed (user, project)
\* pair and no other pair loses a row; after it has removed the admin-role
\* assignment of P's creator, who is not a global admin, every project action
\* on P that this user attempts is denied.
C14_RemovedAdminDenied ==
  [][/\ \A gone \in userProjects \ userProjects' :
          /\ \A up \in userProjects' :
               ~(up.userId = gone.userId /\ up.projectId = gone.projectId)
          /\ \A up \in userProjects \ userProjects' :
               up.userId = gone.userId /\ up.projectId = gone.projectId
     /\ \A r \in Slots :
          (/\ Decides(r) /\ NonAdmin(req[r].user)
           /\ FormerAdmin(req[r].user, req[r].projectId))
            => Denied(req'[r])
    ]_vars

\* C14 witness: the creator of a project, who held two rows for it and was
\* removed from it, was answered 403 to a read of the project.
C14_Witness ==
  \E r \in Slots :
    /\ req[r].kind = "GetProject" /\ Denied(req[r])
    /\ NonAdmin(req[r].user)
    /\ FormerAdmin(req[r].user, req[r].projectId)
    /\ RowsOf(req[r].user, req[r].projectId) = {}
    /\ userProjects = {}
    /\ userProjectSeq >= 3

\* C19: a request without a session never gets into a handler: it is
\* answered 401 on arrival, by a step that changes neither the database
\* tables, nor the log, nor SSM, and no log entry is written in its name.
C19_Unauthenticated ==
  [][/\ \A r \in Slots :
          /\ ~(req'[r].pc \in {"idle", "done"}) => req'[r].user # NoUser
          /\ (req'[r] # req[r] /\ req'[r].status = 401)
               => /\ req[r].pc \in {"idle", "done"}
                  /\ UNCHANGED <<db, ssm>>
     /\ \A i \in DOMAIN activityLogs' : activityLogs'[i].userId # NoUser
    ]_vars

\* C19 witness: a create-secret request without a session was answered 401
\* while a project exists.
C19_Witness ==
  \E r \in Slots :
    /\ req[r].kind = "PostSecrets" /\ req[r].pc = "done" /\ req[r].status = 401
    /\ projects # {}

\* C15 (the claim as stated): getProjectActivityLogs(P) returns exactly the
\* entries about project P and the entries about the secrets that are in P
\* at the time of the call.
C15_ProjectLogs ==
  \A p \in ProjectIds :
    GetProjectActivityLogs(p) =
      {i \in DOMAIN activityLogs :
         \/ activityLogs[i].resourceType = "project" /\ activityLogs[i].resourceId = p
         \/ /\ activityLogs[i].resourceType = "secret"
            /\ \E se \in secrets : se.projectId = p /\ se.id = activityLogs[i].resourceId}

\* C16 (the claim as stated): a secret handler goes on to write its log entry
\* only when its insert, update or delete affected a row: the UPDATE and the
\* DELETE of the request find the row with the secret's id, and the INSERT
\* adds one.
C16_LogOnlyAfterEffect ==
  [][\A r \in Slots :
       /\ (req[r].kind = "PutSecret" /\ req[r].pc = "updateSecret" /\ req'[r].pc = "log")
            => \E se \in secrets : se.id = req[r].secretId
       /\ (req[r].kind = "DeleteSecret" /\ req[r].pc = "deleteSecret" /\ req'[r].pc = "log")
            => \E se \in secrets : se.id = req[r].secretId
       /\ (req[r].kind = "PostSecrets" /\ req[r].pc = "createSecret" /\ req'[r].pc = "log")
            => \E se \in secrets' \ secrets : se.id = req'[r].secretId
    ]_vars

\* The log has an entry of the action on the resource.
Logged(action, resourceType, resourceId) ==
  \E i \in DOMAIN activityLogs :
    /\ activityLogs[i].action = action
    /\ activityLogs[i].resourceType = resourceType
    /\ activityLogs[i].resourceId = resourceId

\* C17 (the claim as stated): once the requests have finished, every
\* committed mutation has its log entry: every project row and every secret
\* row a "created" entry, every secret row that is gone a "deleted" entry.
C17_EveryMutationLogged ==
  (\A r \in Slots : Free(r))
    => /\ \A pr \in projects : Logged("created", "project", pr.id)
       /\ \A se \in secrets : Logged("created", "secret", se.id)
       /\ \A id \in 1..(secretSeq - 1) :
            GetSecret(id) = NoSecret => Logged("deleted", "secret", id)

\* C18: the activity log is append-only: every step leaves each entry of the
\* log as it is, at its place, and removes none.
C18_LogAppendOnly ==
  [][/\ Len(activityLogs') >= Len(activityLogs)
     /\ \A i \in DOMAIN activityLogs : activityLogs'[i] = activityLogs[i]
    ]_vars

\* C18 witness: the log holds the entry of a project's creation and, after
\* it, two more entries about the same project, while role rows were removed.
C18_Witness ==
  /\ Len(activityLogs) >= 3
  /\ activityLogs[1].action = "created" /\ activityLogs[1].resourceType = "project"
  /\ activityLogs[2].resourceType = "project"
  /\ activityLogs[2].resourceId = activityLogs[1].resourceId
  /\ activityLogs[3].resourceId = activityLogs[1].resourceId
  /\ userProjects = {}

\* The request of the record has not passed its authorization check yet.
BeforeAuth(rec) ==
  \/ rec.pc \in {"auth", "getSecret"}
  \/ rec.kind = "GetProject" /\ rec.pc = "getProject"

\* C20: a request answered 403 has changed nothing: the answer comes from
\* the authorization check, and neither this step nor any step that brought
\* the request to the check changes the database tables, the log or SSM.
C20_DeniedMutatesNothing ==
  [][\A r \in Slots :
       /\ (Denied(req'[r]) /\ req'[r] # req[r]) => req[r].pc = "auth"
       /\ ((BeforeAuth(req'[r]) \/ Denied(req'[r])) /\ req'[r] # req[r])
            => UNCHANGED <<db, ssm>>
    ]_vars

\* C20 witness: a delete of an existing secret was answered 403; the row and
\* its SSM parameter are there and the log has no entry about a deletion.
C20_Witness ==
  \E r \in Slots :
    /\ req[r].kind = "DeleteSecret" /\ Denied(req[r])
    /\ GetSecret(req[r].secretId) # NoSecret
    /\ ssm[GetSecret(req[r].secretId).ssmPath] # NoParameter
    /\ ~DeletedBefore(req[r].secretId)

\* C21 (the claim as stated): with requests handled one after another and
\* every dependency call succeeding, after a completed create or update of a
\* secret every secret row's value is the value SSM holds at the row's
\* ssmPath.
C21_RowMirrorsSsm ==
  (/\ \A r \in Slots : Free(r)
   /\ \E r \in Slots : /\ req[r].kind \in {"PostSecrets", "PutSecret"}
                       /\ req[r].pc = "done" /\ req[r].status \in {200, 201})
    => \A se \in secrets : ssm[se.ssmPath] = se.value

\* C22 (the claim as stated): no step changes the ssmPath of a secret row.
C22_SsmPathStable ==
  [][\A se \in secrets, after \in secrets' :
       after.id = se.id => after.ssmPath = se.ssmPath
    ]_vars

\* The user has a row with a write role (admin or editor) in project p.
HasWriteRole(u, p) == \E up \in RowsOf(u, p) : up.role \in {"admin", "editor"}

\* C27 (the claim as stated): a step of a request of a user who is not a
\* global admin inserts a secret row with projectId P, or sets the projectId
\* of a row to P, only when the user has a write role in P.
C27_NoMoveWithoutRole ==
  [][\A r \in Slots : \A after \in secrets' :
       (/\ ~Free(r) /\ NonAdmin(req[r].user)
        /\ \A se \in secrets : se.id = after.id => se.projectId # after.projectId)
         => HasWriteRole(req[r].user, after.projectId)
    ]_vars

\* C23: each update writes the value of its own body to the parameter at the
\* path it read and then to the row, whatever another update did in between:
\* nothing orders the two writes of one request against those of another, so
\* two updates with different values can both answer 200 and leave the row
\* with a value other than the last one written to the parameter.
C23_UpdatesInterleave ==
  [][\A r \in Slots :
       /\ (req[r].kind = "PutSecret" /\ req[r].pc = "ssmPut" /\ req'[r].pc = "updateSecret")
            => ssm' = [ssm EXCEPT ![req[r].secret.ssmPath] = req[r].value]
       /\ (req[r].kind = "PutSecret" /\ req[r].pc = "updateSecret" /\ req'[r].pc = "log"
           /\ req[r].value # NoValue)
            => /\ ssm' = ssm
               /\ \A se \in secrets : se.id = req[r].secretId
                    => \E after \in secrets' : after.id = se.id /\ after.value = req[r].value
    ]_vars

\* Two updates of the only secret ever created both answered 200; the row
\* and the parameter hold different values of the two bodies.
C23_Witness ==
  /\ secretSeq = 2
  /\ \A r \in Slots : /\ req[r].kind = "PutSecret" /\ req[r].pc = "done"
                      /\ req[r].status = 200 /\ req[r].secretId = 1
  /\ \E se \in secrets : /\ se.id = 1
                         /\ se.value \in SecretValues
                         /\ ssm[se.ssmPath] \in SecretValues
                         /\ ssm[se.ssmPath] # se.value

\* C24: when storage.createSecret rejects after the parameter was put, nothing
\* is rolled back: the parameter stays with the value of the request, no row
\* and no log entry is written, and the request ends with the 500 of the
\* catch block (it is not retried).
C24_CreateInsertFailure ==
  [][\A r \in Slots : FailsAt(r, "PostSecrets", "createSecret")
       => /\ ssm' = ssm
          /\ ssm[req[r].ssmPath] = req[r].value
          /\ secrets' = secrets /\ secretSeq' = secretSeq
          /\ activityLogs' = activityLogs
          /\ Failed(req'[r]) /\ req'[r].message = "Failed to create secret"
    ]_vars

\* The create answered 500 and left a parameter no row refers to; the log
\* has no entry about a secret.
C24_Witness ==
  /\ req[1].kind = "PostSecrets" /\ Failed(req[1])
  /\ secrets = {} /\ secretSeq = 1
  /\ \E path \in SsmPaths : ssm[path] \in SecretValues
  /\ \A i \in DOMAIN activityLogs : activityLogs[i].resourceType # "secret"

\* The sequence of log positions is newest first.
NewestFirst(logs) ==
  \A i, j \in DOMAIN logs :
    i < j => activityLogs[logs[i]].timestamp >= activityLogs[logs[j]].timestamp

\* C25: every sequence getActivityLogs, getUserActivityLogs and
\* getProjectActivityLogs may return is newest first and holds each selected
\* entry once; the log answers carry such a sequence; and the timestamp of an
\* entry is the server's clock at the logActivity call that appended it.
C25_NewestFirst ==
  [][/\ \A u \in UserIds, p \in ProjectIds :
         \A ids \in {GetActivityLogs, GetUserActivityLogs(u), GetProjectActivityLogs(p)} :
           \A logs \in OrderByTimestampDesc(ids) :
             NewestFirst(logs) /\ {logs[i] : i \in DOMAIN logs} = ids
     /\ \A r \in Slots :
          (req'[r].kind \in {"AllLogs", "ListLogs"} /\ req'[r].pc = "done"
           /\ req'[r].status = 200)
            => NewestFirst(req'[r].logs)
     /\ Len(activityLogs') > Len(activityLogs)
          => activityLogs'[Len(activityLogs')].timestamp = clock
    ]_vars

\* An answer lists two entries of different timestamps, the later one first.
C25_Witness ==
  /\ req[1].kind \in {"AllLogs", "ListLogs"} /\ req[1].pc = "done" /\ req[1].status = 200
  /\ Len(req[1].logs) >= 2
  /\ activityLogs[req[1].logs[1]].timestamp > activityLogs[req[1].logs[2]].timestamp

\* The request in the slot was answered 200.
Answered(r, kind) == req[r].kind = kind /\ req[r].pc = "done" /\ req[r].status = 200

C28_OutsidersKeptOut ==
  /\ \A u \in DOMAIN users \ UserIds : users[u] # "admin"
  /\ \A r \in Slots :
       (Answered(r, "AllSecrets") /\ req[r].user \in Outsiders) => req[r].result = {}

\* C29 (the claim as stated): when a DELETE and a PUT of one secret ran
\* together and all requests have finished, the parameter at the path of a
\* deleted secret is absent unless a row refers to the path, and the PUT
\* answers 200 only when its UPDATE found the row of the secret.
C29_DeleteBeatsPut ==
  [][/\ (\A r \in Slots : Free(r)')
          => \A path \in SsmPaths :
               ssm'[path] # NoParameter => \E se \in secrets' : se.ssmPath = path
     /\ \A r \in Slots :
          (req[r].kind = "PutSecret" /\ req[r].pc = "updateSecret" /\ req'[r].pc = "log")
            => GetSecret(req[r].secretId) # NoSecret
    ]_vars

\* C30 (the claim as stated): distinct secret rows never share an ssmPath.
C30_PathsDistinct ==
  \A a, b \in secrets : a.id # b.id => a.ssmPath # b.ssmPath

====
